---- MODULE Spec2Model ----
(***************************************************************************)
(* Image processing API: cache middleware, images route and image          *)
(* processor.  Strings are sequences of one-character strings so that      *)
(* path.parse, parseInt and template literals are computed, not assumed.   *)
(***************************************************************************)
EXTENDS Integers, Sequences, FiniteSets, TLC

(***************************************************************************)
(* Bounds of the model.                                                    *)
(***************************************************************************)
\* total number of requests the server accepts in one behaviour
MaxRequests == 2

(***************************************************************************)
(* JavaScript values.                                                      *)
(***************************************************************************)
\* a query parameter that is not part of the URL
Absent == <<"<absent>">>

\* number | undefined, as produced by the option parsing
Undefined == [t |-> "undefined", v |-> 0]
NaN == [t |-> "NaN", v |-> 0]
Num(n) == [t |-> "number", v |-> n]

\* truthiness of a string | undefined
TruthyStr(s) == s # Absent /\ s # <<>>

\* truthiness of a number | undefined: undefined, NaN and 0 are falsy
TruthyNum(x) == x.t = "number" /\ x.v # 0

DecDigits == <<"0", "1", "2", "3", "4", "5", "6", "7", "8", "9">>

DigitVal(c) == (CHOOSE i \in 1..10 : DecDigits[i] = c) - 1

IsDigit(c) == \E i \in 1..10 : DecDigits[i] = c

RECURSIVE SkipSpaces(_)
SkipSpaces(s) ==
  IF s # <<>> /\ Head(s) = " " THEN SkipSpaces(Tail(s)) ELSE s

RECURSIVE DigitPrefix(_)
DigitPrefix(s) ==
  IF s # <<>> /\ IsDigit(Head(s)) THEN <<Head(s)>> \o DigitPrefix(Tail(s)) ELSE <<>>

RECURSIVE DigitsValue(_, _)
DigitsValue(ds, acc) ==
  IF ds = <<>> THEN acc ELSE DigitsValue(Tail(ds), 10 * acc + DigitVal(Head(ds)))

HexDigits == <<"0", "1", "2", "3", "4", "5", "6", "7", "8", "9", "a", "b", "c", "d", "e", "f">>

HexUpper == <<"0", "1", "2", "3", "4", "5", "6", "7", "8", "9", "A", "B", "C", "D", "E", "F">>

IsHexDigit(c) == \E i \in 1..16 : HexDigits[i] = c \/ HexUpper[i] = c

HexVal(c) == (CHOOSE i \in 1..16 : HexDigits[i] = c \/ HexUpper[i] = c) - 1

RECURSIVE HexPrefix(_)
HexPrefix(s) ==
  IF s # <<>> /\ IsHexDigit(Head(s)) THEN <<Head(s)>> \o HexPrefix(Tail(s)) ELSE <<>>

RECURSIVE HexValue(_, _)
HexValue(ds, acc) ==
  IF ds = <<>> THEN acc ELSE HexValue(Tail(ds), 16 * acc + HexVal(Head(ds)))

\* parseInt(string) with no radix: leading blanks are skipped, one sign is
\* accepted, a 0x prefix selects base 16, the longest run of digits is
\* converted and whatever follows is ignored; no digit at all gives NaN
parseInt(s) ==
  LET t == SkipSpaces(s)
      neg == t # <<>> /\ Head(t) = "-"
      u == IF t # <<>> /\ Head(t) \in {"-", "+"} THEN Tail(t) ELSE t
      hex == Len(u) >= 2 /\ u[1] = "0" /\ u[2] \in {"x", "X"}
      ds == IF hex THEN HexPrefix(SubSeq(u, 3, Len(u))) ELSE DigitPrefix(u)
      n == IF hex THEN HexValue(ds, 0) ELSE DigitsValue(ds, 0)
  IN IF ds = <<>> THEN NaN ELSE Num(IF neg THEN 0 - n ELSE n)

RECURSIVE NatToString(_)
NatToString(n) ==
  IF n < 10 THEN <<DecDigits[n + 1]>>
  ELSE NatToString(n \div 10) \o <<DecDigits[(n % 10) + 1]>>

\* `${n}` for an integer n
NumberToString(n) == IF n < 0 THEN <<"-">> \o NatToString(0 - n) ELSE NatToString(n)

(***************************************************************************)
(* path.parse (posix).                                                     *)
(***************************************************************************)
RECURSIVE StripTrailingSlashes(_)
StripTrailingSlashes(p) ==
  IF p # <<>> /\ p[Len(p)] = "/" THEN StripTrailingSlashes(SubSeq(p, 1, Len(p) - 1)) ELSE p

LastIndexOf(s, c) ==
  IF \E i \in 1..Len(s) : s[i] = c
  THEN CHOOSE i \in 1..Len(s) : s[i] = c /\ \A j \in (i + 1)..Len(s) : s[j] # c
  ELSE 0

\* path.parse(p).base: the last segment, trailing separators dropped
PathBase(p) ==
  LET q == StripTrailingSlashes(p)
      i == LastIndexOf(q, "/")
  IN SubSeq(q, i + 1, Len(q))

\* index in the base of the dot that starts the extension, 0 when the base
\* has none: no dot, a dot only as first character, or the base ".."
ExtStart(b) ==
  LET i == LastIndexOf(b, ".")
  IN IF i <= 1 \/ b = <<".", ".">> THEN 0 ELSE i

\* path.parse(p).ext, the dot included
PathExt(p) ==
  LET b == PathBase(p)
      i == ExtStart(b)
  IN IF i = 0 THEN <<>> ELSE SubSeq(b, i, Len(b))

\* path.parse(p).name
PathName(p) ==
  LET b == PathBase(p)
      i == ExtStart(b)
  IN IF i = 0 THEN b ELSE SubSeq(b, 1, i - 1)

\* ext.replace('.', ''): the first dot is removed
RemoveFirstDot(e) ==
  IF \E i \in 1..Len(e) : e[i] = "."
  THEN LET i == CHOOSE k \in 1..Len(e) : e[k] = "." /\ \A j \in 1..(k - 1) : e[j] # "."
       IN SubSeq(e, 1, i - 1) \o SubSeq(e, i + 1, Len(e))
  ELSE e

(***************************************************************************)
(* path.join: paths are sequences of segments below the project root.      *)
(***************************************************************************)
RECURSIVE SplitPath(_)
SplitPath(s) ==
  IF \E i \in 1..Len(s) : s[i] = "/"
  THEN LET i == CHOOSE k \in 1..Len(s) : s[k] = "/" /\ \A j \in 1..(k - 1) : s[j] # "/"
       IN <<SubSeq(s, 1, i - 1)>> \o SplitPath(SubSeq(s, i + 1, Len(s)))
  ELSE <<s>>

\* normalisation: empty and '.' segments are dropped, '..' removes the
\* segment before it
RECURSIVE NormalizeInto(_, _)
NormalizeInto(acc, segs) ==
  IF segs = <<>> THEN acc
  ELSE LET seg == Head(segs)
       IN IF seg = <<>> \/ seg = <<".">> THEN NormalizeInto(acc, Tail(segs))
          ELSE IF seg = <<".", ".">>
          THEN NormalizeInto(IF acc = <<>> THEN acc ELSE SubSeq(acc, 1, Len(acc) - 1), Tail(segs))
          ELSE NormalizeInto(Append(acc, seg), Tail(segs))

\* path.join(folder, name) for an absolute folder
JoinPath(folder, name) == NormalizeInto(<<>>, folder \o SplitPath(name))

\* path.resolve(__dirname, '../../images')
inputFolder == << <<"i", "m", "a", "g", "e", "s">> >>

\* path.resolve(__dirname, '../../public/images/processed')
outputFolder ==
  << <<"p", "u", "b", "l", "i", "c">>, <<"i", "m", "a", "g", "e", "s">>,
     <<"p", "r", "o", "c", "e", "s", "s", "e", "d">> >>

(***************************************************************************)
(* Options and the two key derivations.                                    *)
(***************************************************************************)
\* the options object built from req.query
ParseOptions(q) ==
  [filename |-> q.filename,
   width |-> IF TruthyStr(q.width) THEN parseInt(q.width) ELSE Undefined,
   height |-> IF TruthyStr(q.height) THEN parseInt(q.height) ELSE Undefined,
   format |-> q.format]

\* options.width || 'auto'
DimOrAuto(x) == IF TruthyNum(x) THEN NumberToString(x.v) ELSE <<"a", "u", "t", "o">>

\* middleware/cache: generateCacheKey
generateCacheKey(options) ==
  LET fileNameWithoutExt == PathName(options.filename)
      ext == RemoveFirstDot(PathExt(options.filename))
      extension == IF TruthyStr(options.format) THEN options.format
                   ELSE IF ext # <<>> THEN ext ELSE <<"j", "p", "g">>
      dimensions == IF TruthyNum(options.width) \/ TruthyNum(options.height)
                    THEN <<"_">> \o DimOrAuto(options.width) \o <<"x">> \o DimOrAuto(options.height)
                    ELSE <<>>
  IN fileNameWithoutExt \o dimensions \o <<".">> \o extension

\* generateProcessedFilename that adds the dimensions only when both are given
generateProcessedFilenameBothDims(options) ==
  LET fileNameWithoutExt == PathName(options.filename)
      originalExt == RemoveFirstDot(PathExt(options.filename))
      extension == IF TruthyStr(options.format) THEN options.format
                   ELSE IF originalExt = <<>> THEN <<"j", "p", "g">> ELSE originalExt
      dimensions == IF TruthyNum(options.width) /\ TruthyNum(options.height)
                    THEN <<"_">> \o DimOrAuto(options.width) \o <<"x">> \o DimOrAuto(options.height)
                    ELSE <<>>
  IN fileNameWithoutExt \o dimensions \o <<".">> \o extension

\* generateProcessedFilename whose default extension is jpeg
generateProcessedFilenameJpeg(options) ==
  LET fileNameWithoutExt == PathName(options.filename)
      originalExt == RemoveFirstDot(PathExt(options.filename))
      extension == IF TruthyStr(options.format) THEN options.format
                   ELSE IF originalExt = <<>> THEN <<"j", "p", "e", "g">> ELSE originalExt
      dimensions == IF TruthyNum(options.width) \/ TruthyNum(options.height)
                    THEN <<"_">> \o DimOrAuto(options.width) \o <<"x">> \o DimOrAuto(options.height)
                    ELSE <<>>
  IN fileNameWithoutExt \o dimensions \o <<".">> \o extension

\* utils/imageProcessor: generateProcessedFilename
generateProcessedFilename(options) ==
  LET fileNameWithoutExt == PathName(options.filename)
      originalExt == RemoveFirstDot(PathExt(options.filename))
      extension == IF TruthyStr(options.format) THEN options.format
                   ELSE IF originalExt = <<>> THEN <<"j", "p", "g">> ELSE originalExt
      dimensions == IF TruthyNum(options.width) \/ TruthyNum(options.height)
                    THEN <<"_">> \o DimOrAuto(options.width) \o <<"x">> \o DimOrAuto(options.height)
                    ELSE <<>>
  IN fileNameWithoutExt \o dimensions \o <<".">> \o extension

(***************************************************************************)
(* The server: requests handled concurrently, one handler per slot.        *)
(***************************************************************************)
\* connections the server handles at the same time
Slots == {"s1", "s2"}

\* the source images under inputFolder
InputDir == {<<"a", ".", "j", "p", "g">>, <<"a", ".", "p", "n", "g">>}

\* raw query parameters a client sends
Filenames == {Absent, <<>>, <<"a">>, <<"a", ".", "j", "p", "g">>, <<"a", ".", "p", "n", "g">>}

Widths == {Absent, <<"a", "b", "c">>, <<"3">>}

Heights == {Absent, <<"2">>}

Formats == {Absent, <<"p", "n", "g">>}

\* the requests of the server model; one without a filename carries no
\* other parameter, a height comes with the jpg source and without a format,
\* and the name without extension carries a width at most
Queries ==
  {q \in [filename : Filenames, width : Widths, height : Heights, format : Formats] :
     \/ ~ TruthyStr(q.filename) /\ q.width = Absent /\ q.height = Absent /\ q.format = Absent
     \/ q.filename = <<"a", ".", "j", "p", "g">> /\ (q.height = Absent \/ q.format = Absent)
     \/ q.filename = <<"a", ".", "p", "n", "g">> /\ q.height = Absent
     \/ q.filename = <<"a">> /\ q.height = Absent /\ q.format = Absent}

\* output formats the codec accepts in toFormat
SupportedFormats == {<<"p", "n", "g">>, <<"j", "p", "g">>, <<"j", "p", "e", "g">>, <<"w", "e", "b", "p">>}

NoQuery == [filename |-> Absent, width |-> Absent, height |-> Absent, format |-> Absent]

NoOptions == [filename |-> Absent, width |-> Undefined, height |-> Undefined, format |-> Absent]

\* null where a path is expected
NoPath == <<Absent>>

\* a filename parameter given twice: the query parser yields an array
ArrayFilename == <<"<array>">>

\* typeof x === 'string', which path.parse and path.join insist on
IsString(x) == x # ArrayFilename

\* an error thrown where a path is expected
ProbeError == << <<"<error>">> >>

\* the bytes of a file that two encoders of different images wrote at once
MixedBytes == [filename |-> <<"<mixed>">>, width |-> Undefined, height |-> Undefined, format |-> Absent]

NoFile ==
  [key |-> Absent, path |-> NoPath, by |-> NoOptions, format |-> Absent, complete |-> FALSE,
   raced |-> FALSE, writes |-> 0]

\* a handler that has no request
IdleReq ==
  [pc |-> "idle", q |-> NoQuery, locals |-> NoOptions, status |-> 0, body |-> "",
   ctype |-> "", via |-> "none", served |-> NoFile, sent |-> 0, log |-> <<>>,
   direct |-> FALSE, steps |-> {}, result |-> NoPath, error |-> <<>>, returned |-> "none"]

\* the arguments and results of the key derivations checked on their own
NoKeys == [cacheA |-> Absent, cacheB |-> Absent, processedA |-> Absent]

VARIABLES req, outDir, outDirExists, started, removed, keyArgs, keyResult

vars == <<req, outDir, outDirExists, started, removed, keyArgs, keyResult>>

serverVars == <<req, outDir, outDirExists, started, removed>>

keyVars == <<keyArgs, keyResult>>

\* the output folder is created on demand; nothing has been processed yet
\* and every source image is in place
Init ==
  /\ req = [s \in Slots |-> IdleReq]
  /\ outDir = <<>>
  /\ outDirExists = FALSE
  /\ started = 0
  /\ removed = {}
  /\ keyArgs = <<NoQuery, NoQuery>>
  /\ keyResult = NoKeys

Has(log, e) == \E i \in 1..Len(log) : log[i] = e

\* the source image stored under name f
SourceFile(f) ==
  [key |-> f, path |-> Append(inputFolder, f), by |-> NoOptions, format |-> RemoveFirstDot(PathExt(f)),
   complete |-> TRUE, raced |-> FALSE, writes |-> 0]

\* the folders on disk: the root, the input folder and, once created, the
\* output folder with its parents
IsDirectory(p) ==
  \/ p = <<>>
  \/ p = inputFolder
  \/ outDirExists /\ \E n \in 1..Len(outputFolder) : p = SubSeq(outputFolder, 1, n)

\* the files on disk: the source images still there and what toFile has
\* written
IsFile(p) ==
  \/ \E f \in InputDir \ removed : p = Append(inputFolder, f)
  \/ \E i \in DOMAIN outDir : outDir[i].path = p

\* fs.existsSync(p) and fs.promises.access(p, F_OK), p resolved once
PathExists(p) == \E resolved \in {p} : IsFile(resolved) \/ IsDirectory(resolved)

\* a read that sees every file whole
FileAtWhole(p) ==
  IF \E i \in DOMAIN outDir : outDir[i].path = p
  THEN [outDir[CHOOSE i \in DOMAIN outDir : outDir[i].path = p] EXCEPT !.complete = TRUE]
  ELSE SourceFile(p[Len(p)])

\* the file on disk at path p
FileAt(p) ==
  IF \E i \in DOMAIN outDir : outDir[i].path = p
  THEN outDir[CHOOSE i \in DOMAIN outDir : outDir[i].path = p]
  ELSE SourceFile(p[Len(p)])

\* path.join(outputFolder, key)
OutputPath(key) == JoinPath(outputFolder, key)

\* fs.existsSync(path.join(outputFolder, key))
OutputExists(key) == PathExists(OutputPath(key))

\* position in the output folder of the file stored under key
OutputFile(key) == (CHOOSE i \in DOMAIN outDir : outDir[i].path = OutputPath(key))

\* checkCache that probes for the source file name instead of the derived key
checkCacheProbesSource(options) ==
  LET cachedFilename == PathBase(options.filename)
      cachedFilePath == OutputPath(cachedFilename)
  IN IF PathExists(cachedFilePath) THEN cachedFilePath ELSE NoPath

\* a checkCache that lets the error of the probe out
checkCacheRethrows(options) ==
  IF ~ IsString(options.filename) THEN ProbeError
  ELSE LET cachedFilename == generateCacheKey(options)
           cachedFilePath == OutputPath(cachedFilename)
       IN IF PathExists(cachedFilePath) THEN cachedFilePath ELSE NoPath

\* middleware/cache: checkCache, the cached path on a hit and NoPath (null)
\* on a miss and when path.parse throws in generateCacheKey (catch: null)
checkCache(options) ==
  IF ~ IsString(options.filename) THEN NoPath
  ELSE LET cachedFilename == generateCacheKey(options)
           cachedFilePath == OutputPath(cachedFilename)
       IN IF PathExists(cachedFilePath) THEN cachedFilePath ELSE NoPath

\* utils/imageProcessor: imageExists
imageExists(filename) == PathExists(JoinPath(inputFolder, filename))

\* a filename test that lets the empty string through
MissingFilenameUndefinedOnly(options) == options.filename = Absent

\* !options.filename
MissingFilename(options) == ~ TruthyStr(options.filename)

\* routes/images: the numeric validation of the route handler
InvalidDimensions(options) ==
  \/ options.width # Undefined /\ (options.width = NaN \/ options.width.v <= 0)
  \/ options.height # Undefined /\ (options.height = NaN \/ options.height.v <= 0)

\* res.status(code).send(text) that ends the handler
Respond(r, code, text, step) ==
  [r EXCEPT !.pc = "done", !.status = code, !.body = text, !.sent = @ + 1,
            !.log = Append(@, step)]

\* the Content-Type res.sendFile derives from the extension of the path
Mime(ext) ==
  IF ext \in {<<"j", "p", "g">>, <<"j", "p", "e", "g">>} THEN "image/jpeg"
  ELSE IF ext = <<"p", "n", "g">> THEN "image/png"
  ELSE IF ext = <<"w", "e", "b", "p">> THEN "image/webp"
  ELSE "application/octet-stream"

\* res.sendFile(path): the file as it is on disk at that moment
SendFile(r, file, how) ==
  [r EXCEPT !.pc = "done", !.status = 200, !.body = "file", !.via = how,
            !.ctype = Mime(RemoveFirstDot(PathExt(file.path[Len(file.path)]))),
            !.served = file, !.sent = @ + 1, !.log = Append(@, "sendFile")]

\* routes/images: the route handler up to its await of imageExists; it
\* parses the query itself when res.locals.imageOptions is not set
RouteHandlerStart(r, fromQuery) ==
  LET options == IF r.locals # NoOptions THEN r.locals ELSE fromQuery
      r1 == IF r.locals # NoOptions THEN r ELSE [r EXCEPT !.steps = @ \cup {"reparse"}]
  IN IF ~ TruthyStr(options.filename)
     THEN Respond(r1, 400, "Missing required parameter: filename", "missing")
     ELSE [r1 EXCEPT !.pc = "access", !.locals = options, !.log = Append(@, "imageExists")]

\* a hit branch that sends the cached file and falls through to next()
CacheHitThenNext(r, file) ==
  LET sentR == SendFile(r, file, "cache")
  IN [sentR EXCEPT !.pc = "access", !.locals = ParseOptions(r.q), !.log = Append(@, "next")]

\* middleware/cache: the branch of cacheMiddleware taken on a hit
CacheHit(r, file) == SendFile(r, file, "cache")

\* a miss branch that sets res.locals.imageOptions and returns without
\* calling next()
CacheMissWithoutNext(r, options) == [r EXCEPT !.pc = "returned", !.locals = options]

\* middleware/cache: the branch of cacheMiddleware taken on a miss
CacheMiss(r, options) ==
  RouteHandlerStart([r EXCEPT !.locals = options, !.log = Append(@, "next")], options)

\* middleware/cache: cacheMiddleware, and on a miss the route handler up to
\* its await of imageExists; res.sendFile of a folder passes on to next()
cacheMiddleware(s, q) ==
  /\ req[s].pc = "idle"
  /\ started' = started + 1
  /\ LET options == ParseOptions(q)
         r0 == [IdleReq EXCEPT !.q = q]
         r1 == [r0 EXCEPT !.log = <<"checkCache">>]
         hit == checkCache(options)
     IN req' = [req EXCEPT ![s] =
          IF MissingFilename(options)
          THEN Respond(r0, 400, "Missing required parameter: filename", "missing")
          ELSE IF hit = ProbeError
          THEN Respond(r1, 500, "Internal server error: The path argument must be of type string", "error")
          ELSE IF hit # NoPath /\ IsFile(hit)
          THEN CacheHit(r1, FileAt(hit))
          ELSE IF hit # NoPath
          THEN RouteHandlerStart([r1 EXCEPT !.log = Append(@, "next")], options)
          ELSE CacheMiss(r1, options)]
  /\ UNCHANGED <<outDir, outDirExists, removed, keyVars>>

\* a catch that answers 500 without the message of the error
RejectWithoutMessage(r, cause, text) ==
  IF r.direct
  THEN [r EXCEPT !.pc = "done", !.error = <<"Failed to process image", cause>>,
                 !.log = Append(@, "fail")]
  ELSE [Respond(r, 500, "Internal server error", "fail")
          EXCEPT !.error = <<"Failed to process image", cause>>]

\* processImage rejects: a direct caller gets the error, the route handler
\* catches it and answers 500
Reject(r, cause, text) ==
  IF r.direct
  THEN [r EXCEPT !.pc = "done", !.error = <<"Failed to process image", cause>>,
                 !.log = Append(@, "fail")]
  ELSE [Respond(r, 500, text, "fail") EXCEPT !.error = <<"Failed to process image", cause>>]

\* the input path of processImage holds an image the codec can decode
IsImage(p) ==
  \E resolved \in {p} :
    IsFile(resolved) /\ FileAt(resolved).complete /\ FileAt(resolved).by # MixedBytes

\* the format toFile encodes: the one given to toFormat, else the extension
\* of the output path
EncodedFormat(options) ==
  IF TruthyStr(options.format) THEN options.format
  ELSE RemoveFirstDot(PathExt(generateProcessedFilename(options)))

\* the bytes toFile produces: they depend on the source read, the size and
\* the encoder, jpg and jpeg naming the same one
ImageOf(options) ==
  LET inputPath == JoinPath(inputFolder, options.filename)
      format == EncodedFormat(options)
  IN [filename |-> inputPath[Len(inputPath)], width |-> options.width, height |-> options.height,
      format |-> IF format = <<"j", "p", "g">> THEN <<"j", "p", "e", "g">> ELSE format]

\* utils/imageProcessor: processImage after ensureOutputFolderExists has
\* returned, up to the call of toFile
ProcessImageStart(r) ==
  LET options == r.locals
      inputPath == JoinPath(inputFolder, options.filename)
  IN IF ~ PathExists(inputPath)
     THEN Reject(r, "Input file not found",
                 "Internal server error: Error: Failed to process image: Error: Input file not found")
     ELSE IF (TruthyNum(options.width) \/ TruthyNum(options.height)) /\ InvalidDimensions(options)
     THEN Reject(r, "Expected positive integer",
                 "Internal server error: Error: Failed to process image: Error: Expected positive integer")
     ELSE IF TruthyStr(options.format) /\ ~ (options.format \in SupportedFormats)
     THEN Reject(r, "Unsupported output format",
                 "Internal server error: Error: Failed to process image: Error: Unsupported output format")
     ELSE [r EXCEPT !.pc = "toFile",
                    !.steps = @ \cup (IF TruthyNum(options.width) \/ TruthyNum(options.height)
                                     THEN {"resize"} ELSE {})
                                \cup (IF TruthyStr(options.format) THEN {"toFormat"} ELSE {})]

\* a processImage that returns the artifact already at its output path
ProcessImageEnterCached(r) ==
  LET r1 == [r EXCEPT !.log = Append(@, "processImage")]
      outputPath == OutputPath(generateProcessedFilename(r.locals))
  IN IF IsString(r.locals.filename) /\ IsFile(outputPath)
     THEN [r1 EXCEPT !.pc = "done", !.result = outputPath, !.served = FileAt(outputPath)]
     ELSE IF ~ outDirExists THEN [r1 EXCEPT !.pc = "mkdir"] ELSE ProcessImageStart(r1)

\* utils/imageProcessor: processImage up to its first await
ProcessImageEnter(r) ==
  LET r1 == [r EXCEPT !.log = Append(@, "processImage")]
  IN IF ~ outDirExists THEN [r1 EXCEPT !.pc = "mkdir"] ELSE ProcessImageStart(r1)

\* a route handler that creates the output folder before it validates
routeHandlerCreatesFolder(s) ==
  /\ req[s].pc = "access"
  /\ outDirExists' = TRUE
  /\ LET r == req[s]
         options == r.locals
     IN req' = [req EXCEPT ![s] =
          IF ~ IsString(options.filename)
          THEN Respond(r, 500, "Internal server error: TypeError: The path argument must be of type string", "typeError")
          ELSE IF ~ imageExists(options.filename)
          THEN Respond(r, 404, "Image not found", "notFound")
          ELSE IF InvalidDimensions(options)
          THEN Respond(r, 400, "Width and height must be positive numbers", "invalid")
          ELSE ProcessImageStart([r EXCEPT !.log = Append(@, "processImage")])]
  /\ UNCHANGED <<outDir, started, removed, keyVars>>

\* routes/images: the route handler from the result of imageExists to the
\* first await inside processImage
routeHandler(s) ==
  /\ req[s].pc = "access"
  /\ LET r == req[s]
         options == r.locals
     IN req' = [req EXCEPT ![s] =
          IF ~ IsString(options.filename)
          THEN Respond(r, 500, "Internal server error: TypeError: The path argument must be of type string", "typeError")
          ELSE IF ~ imageExists(options.filename)
          THEN Respond(r, 404, "Image not found", "notFound")
          ELSE IF InvalidDimensions(options)
          THEN Respond(r, 400, "Width and height must be positive numbers", "invalid")
          ELSE ProcessImageEnter(r)]
  /\ UNCHANGED <<outDir, outDirExists, started, removed, keyVars>>

\* utils/imageProcessor: processImage(options) called directly
processImage(s, q) ==
  /\ req[s].pc = "idle"
  /\ started' = started + 1
  /\ req' = [req EXCEPT ![s] =
       ProcessImageEnter([IdleReq EXCEPT !.q = q, !.locals = ParseOptions(q), !.direct = TRUE])]
  /\ UNCHANGED <<outDir, outDirExists, removed, keyVars>>

\* a mkdir without { recursive: true }: it rejects with EEXIST when another
\* handler has created the folder since the existsSync of this one
ensureOutputFolderNotRecursive(s) ==
  /\ req[s].pc = "mkdir"
  /\ outDirExists' = TRUE
  /\ req' = [req EXCEPT ![s] =
       IF outDirExists
       THEN Reject(req[s], "Failed to create output directory",
                   "Internal server error: Error: Failed to process image: Error: Failed to create output directory")
       ELSE ProcessImageStart(req[s])]
  /\ UNCHANGED <<outDir, started, removed, keyVars>>

\* utils/imageProcessor: ensureOutputFolderExists, the recursive mkdir
\* completes, also when another handler has created the folder since the
\* existsSync of this one (it then creates nothing)
ensureOutputFolderExists(s) ==
  /\ req[s].pc = "mkdir"
  /\ outDirExists' = TRUE
  /\ req' = [req EXCEPT ![s] = ProcessImageStart(req[s])]
  /\ UNCHANGED <<outDir, started, removed, keyVars>>

\* utils/imageProcessor: ensureOutputFolderExists, the mkdir rejects and
\* processImage rethrows
ensureOutputFolderFails(s) ==
  /\ req[s].pc = "mkdir"
  /\ req' = [req EXCEPT ![s] =
       Reject(req[s], "Failed to create output directory",
              "Internal server error: Error: Failed to process image: Error: Failed to create output directory")]
  /\ UNCHANGED <<outDir, outDirExists, started, removed, keyVars>>

\* the output file of a request being processed
OutputKey(r) == generateProcessedFilename(r.locals)

\* number of times the file under key has been opened for writing
WritesOf(key) == IF OutputExists(key) THEN outDir[OutputFile(key)].writes ELSE 0

\* the output folder with the file under key replaced by f
PutFile(key, f) ==
  IF OutputExists(key)
  THEN [outDir EXCEPT ![OutputFile(key)] = f]
  ELSE Append(outDir, f)

\* another handler is writing the file under key
OtherWrites(s, key) == \E t \in Slots \ {s} : req[t].pc = "writing" /\ OutputKey(req[t]) = key

\* another handler is writing other bytes to the file under key
OtherBytes(s, key) ==
  \E t \in Slots \ {s} :
    req[t].pc = "writing" /\ OutputKey(req[t]) = key /\ ImageOf(req[t].locals) # ImageOf(req[s].locals)

\* a toFile that writes over its input
toFileOpenInPlace(s) ==
  /\ req[s].pc = "toFile"
  /\ IsImage(JoinPath(inputFolder, req[s].locals.filename))
  /\ LET key == OutputKey(req[s])
     IN outDir' = Append(outDir, [key |-> key, path |-> JoinPath(inputFolder, req[s].locals.filename),
                                  by |-> ImageOf(req[s].locals), format |-> EncodedFormat(req[s].locals),
                                  complete |-> FALSE, raced |-> FALSE, writes |-> 1])
  /\ req' = [req EXCEPT ![s].pc = "writing", ![s].log = Append(@, "toFile")]
  /\ UNCHANGED <<outDirExists, started, removed, keyVars>>

\* toFile decodes the input and opens the output path: the file is created
\* or truncated
toFileOpen(s) ==
  /\ req[s].pc = "toFile"
  /\ IsImage(JoinPath(inputFolder, req[s].locals.filename))
  /\ \E key \in {OutputKey(req[s])} :
       outDir' = PutFile(key, [key |-> key, path |-> OutputPath(key), by |-> ImageOf(req[s].locals),
                               format |-> EncodedFormat(req[s].locals), complete |-> FALSE,
                               raced |-> OtherBytes(s, key), writes |-> WritesOf(key) + 1])
  /\ req' = [req EXCEPT ![s].pc = "writing", ![s].log = Append(@, "toFile")]
  /\ UNCHANGED <<outDirExists, started, removed, keyVars>>

\* what the file holds once this writer has finished: its own bytes, or a
\* mixture when a writer of other bytes had the file open at the same time
BytesAfter(s, key) ==
  IF outDir[OutputFile(key)].raced THEN {ImageOf(req[s].locals), MixedBytes}
  ELSE {ImageOf(req[s].locals)}

\* toFile resolves: the file is complete unless another handler still writes
\* it; processImage returns the path and the route handler sends the file
toFileDone(s) ==
  /\ req[s].pc = "writing"
  /\ \E key \in {OutputKey(req[s])} : \E bytes \in BytesAfter(s, key) :
       LET f == [outDir[OutputFile(key)] EXCEPT !.by = bytes, !.complete = ~ OtherWrites(s, key)]
           r == [req[s] EXCEPT !.log = Append(@, "written"), !.result = f.path]
       IN /\ outDir' = PutFile(key, f)
          /\ req' = [req EXCEPT ![s] =
               IF r.direct THEN [r EXCEPT !.pc = "done", !.served = f]
               ELSE SendFile(r, f, "compute")]
  /\ UNCHANGED <<outDirExists, started, removed, keyVars>>

\* a failure path that unlinks the file it was writing
toFileFailUnlinks(s) ==
  /\ req[s].pc \in {"toFile", "writing"}
  /\ req' = [req EXCEPT ![s] =
       Reject(req[s], "toFile", "Internal server error: Error: Failed to process image")]
  /\ outDir' = SelectSeq(outDir, LAMBDA f : f.path # OutputPath(OutputKey(req[s])))
  /\ UNCHANGED <<outDirExists, started, removed, keyVars>>

\* toFile rejects (codec or I/O error): processImage rethrows and the route
\* handler answers 500; what has been written stays on disk
toFileFail(s) ==
  /\ req[s].pc \in {"toFile", "writing"}
  /\ req' = [req EXCEPT ![s] =
       Reject(req[s], "toFile", "Internal server error: Error: Failed to process image")]
  /\ UNCHANGED <<outDir, outDirExists, started, removed, keyVars>>

\* the connection is closed and the slot takes the next request
Close(s) ==
  /\ req[s].pc = "done"
  /\ req' = [req EXCEPT ![s] = IdleReq]
  /\ UNCHANGED <<outDir, outDirExists, started, removed, keyVars>>

\* utils/imageProcessor: imageExists(filename) called directly: it resolves
\* true or false, and rejects when path.join throws, which is outside its try
imageExistsCall(s, filename) ==
  /\ req[s].pc = "idle"
  /\ started' = started + 1
  /\ req' = [req EXCEPT ![s] =
       [IdleReq EXCEPT !.pc = "done", !.q = [NoQuery EXCEPT !.filename = filename], !.direct = TRUE,
                       !.log = <<"imageExists">>,
                       !.returned = IF ~ IsString(filename) THEN "rejected"
                                    ELSE IF imageExists(filename) THEN "true" ELSE "false"]]
  /\ UNCHANGED <<outDir, outDirExists, removed, keyVars>>

\* the source image f is removed from the input folder, which the handlers
\* do not lock between their checks
sourceRemoved(f) ==
  /\ f \in InputDir \ removed
  /\ removed' = removed \cup {f}
  /\ UNCHANGED <<req, outDir, outDirExists, started, keyVars>>

Next ==
  \/ \E s \in Slots, q \in Queries : started < MaxRequests /\ cacheMiddleware(s, q)
  \/ \E s \in Slots : routeHandler(s)
  \/ \E s \in Slots : ensureOutputFolderExists(s)
  \/ \E s \in Slots : ensureOutputFolderFails(s)
  \/ \E s \in Slots : toFileOpen(s)
  \/ \E s \in Slots : toFileDone(s)
  \/ \E s \in Slots : toFileFail(s)
  \/ \E s \in Slots : Close(s)

Spec == Init /\ [][Next]_vars

(***************************************************************************)
(* Three requests over a few chosen queries: two that derive the same key  *)
(* from different sources, and file names and formats that hold path       *)
(* separators.                                                             *)
(***************************************************************************)
MaxRaceRequests == 3

\* a format that leads from the output folder to a source image
FormatToSource ==
  <<"/", ".", ".", "/", ".", ".", "/", ".", ".", "/", ".", ".", "/",
    "i", "m", "a", "g", "e", "s", "/", "a", ".", "j", "p", "g">>

\* a file name that leaves the input folder and comes back to a source image
FilenameViaParent ==
  <<".", ".", "/", "i", "m", "a", "g", "e", "s", "/", "a", ".", "j", "p", "g">>

RaceQueries ==
  {[NoQuery EXCEPT !.filename = <<"a", ".", "p", "n", "g">>],
   [NoQuery EXCEPT !.filename = <<"a", ".", "j", "p", "g">>, !.format = <<"p", "n", "g">>],
   [NoQuery EXCEPT !.filename = <<"a", ".", "j", "p", "g">>, !.format = FormatToSource],
   [NoQuery EXCEPT !.filename = <<"a", ".", "j", "p", "g">>, !.format = <<"/", ".", ".">>],
   [NoQuery EXCEPT !.filename = FilenameViaParent],
   [NoQuery EXCEPT !.filename = FilenameViaParent, !.width = <<"3">>, !.height = <<"2">>],
   [NoQuery EXCEPT !.filename = ArrayFilename]}

RaceNext ==
  \/ \E s \in Slots, q \in RaceQueries : started < MaxRaceRequests /\ cacheMiddleware(s, q)
  \/ \E s \in Slots : routeHandler(s)
  \/ \E s \in Slots : ensureOutputFolderExists(s)
  \/ \E s \in Slots : ensureOutputFolderFails(s)
  \/ \E s \in Slots : toFileOpen(s)
  \/ \E s \in Slots : toFileDone(s)
  \/ \E s \in Slots : toFileFail(s)
  \/ \E s \in Slots : Close(s)

RaceSpec == Init /\ [][RaceNext]_vars

(***************************************************************************)
(* processImage called directly, as the unit tests do, by concurrent       *)
(* callers.                                                                *)
(***************************************************************************)
MaxCalls == 3

ProcQueries ==
  {[NoQuery EXCEPT !.filename = <<"a", ".", "p", "n", "g">>],
   [NoQuery EXCEPT !.filename = <<"a", ".", "j", "p", "g">>, !.format = <<"p", "n", "g">>],
   [NoQuery EXCEPT !.filename = <<"a", ".", "j", "p", "g">>, !.width = <<"3">>],
   [NoQuery EXCEPT !.filename = <<"a", ".", "j", "p", "g">>, !.width = <<"0">>, !.height = <<"2">>],
   [NoQuery EXCEPT !.filename = <<"a", ".", "j", "p", "g">>, !.width = <<"0">>],
   [NoQuery EXCEPT !.filename = <<"a", ".", "j", "p", "g">>, !.width = <<"3">>, !.format = <<"p", "n", "g">>],
   [NoQuery EXCEPT !.filename = <<"a", ".", "j", "p", "g">>, !.format = <<"x", "y", "z">>],
   [NoQuery EXCEPT !.filename = <<"b", ".", "j", "p", "g">>],
   [NoQuery EXCEPT !.filename = FilenameViaParent, !.format = FormatToSource]}

ProcNext ==
  \/ \E s \in Slots, q \in ProcQueries : started < MaxCalls /\ processImage(s, q)
  \/ \E s \in Slots : ensureOutputFolderExists(s)
  \/ \E s \in Slots : ensureOutputFolderFails(s)
  \/ \E s \in Slots : toFileOpen(s)
  \/ \E s \in Slots : toFileDone(s)
  \/ \E s \in Slots : toFileFail(s)
  \/ \E s \in Slots : Close(s)

ProcSpec == Init /\ [][ProcNext]_vars

(***************************************************************************)
(* Requests served while source images are removed from the input folder.  *)
(***************************************************************************)
MaxEnvRequests == 2

EnvQueries ==
  {[NoQuery EXCEPT !.filename = <<"a", ".", "j", "p", "g">>],
   [NoQuery EXCEPT !.filename = <<"a", ".", "p", "n", "g">>],
   [NoQuery EXCEPT !.filename = <<"a", ".", "j", "p", "g">>, !.width = <<"3">>],
   [NoQuery EXCEPT !.filename = <<"a", ".", "j", "p", "g">>, !.width = <<"a", "b", "c">>]}

EnvNext ==
  \/ \E s \in Slots, q \in EnvQueries : started < MaxEnvRequests /\ cacheMiddleware(s, q)
  \/ \E s \in Slots : routeHandler(s)
  \/ \E s \in Slots : ensureOutputFolderExists(s)
  \/ \E s \in Slots : ensureOutputFolderFails(s)
  \/ \E s \in Slots : toFileOpen(s)
  \/ \E s \in Slots : toFileDone(s)
  \/ \E s \in Slots : toFileFail(s)
  \/ \E s \in Slots : Close(s)
  \/ \E f \in InputDir : sourceRemoved(f)

EnvSpec == Init /\ [][EnvNext]_vars

(***************************************************************************)
(* Concurrent requests on a filesystem and a codec that do not fail: what  *)
(* the handlers do to each other.                                          *)
(***************************************************************************)
MaxQuietRequests == 3

QuietQueries ==
  {[NoQuery EXCEPT !.filename = <<"a", ".", "j", "p", "g">>],
   [NoQuery EXCEPT !.filename = <<"a", ".", "p", "n", "g">>],
   [NoQuery EXCEPT !.filename = <<"a", ".", "j", "p", "g">>, !.width = <<"3">>],
   [NoQuery EXCEPT !.filename = <<"a", ".", "j", "p", "g">>, !.format = <<"p", "n", "g">>]}

QuietNext ==
  \/ \E s \in Slots, q \in QuietQueries : started < MaxQuietRequests /\ cacheMiddleware(s, q)
  \/ \E s \in Slots : routeHandler(s)
  \/ \E s \in Slots : ensureOutputFolderExists(s)
  \/ \E s \in Slots : toFileOpen(s)
  \/ \E s \in Slots : toFileDone(s)
  \/ \E s \in Slots : Close(s)

QuietSpec == Init /\ [][QuietNext]_vars

(***************************************************************************)
(* Requests under fair scheduling: every pending filesystem or codec       *)
(* operation of a handler completes, with a result or with an error.       *)
(***************************************************************************)
MaxLiveRequests == 2

LiveQueries ==
  {NoQuery,
   [NoQuery EXCEPT !.filename = <<"a", ".", "j", "p", "g">>],
   [NoQuery EXCEPT !.filename = <<"a", ".", "j", "p", "g">>, !.width = <<"a", "b", "c">>],
   [NoQuery EXCEPT !.filename = <<"a">>],
   [NoQuery EXCEPT !.filename = <<"a", ".", "j", "p", "g">>, !.format = <<"/", ".", ".">>],
   [NoQuery EXCEPT !.filename = ArrayFilename]}

\* the continuation of the handler in slot s after the operation it awaits
HandlerStep(s) ==
  \/ routeHandler(s)
  \/ ensureOutputFolderFails(s)
  \/ ensureOutputFolderExists(s)
  \/ toFileFail(s)
  \/ toFileOpen(s)
  \/ toFileDone(s)

LiveNext ==
  \/ \E s \in Slots, q \in LiveQueries : started < MaxLiveRequests /\ cacheMiddleware(s, q)
  \/ \E s \in Slots : HandlerStep(s)
  \/ \E s \in Slots : Close(s)

LiveSpec == Init /\ [][LiveNext]_vars /\ \A s \in Slots : WF_vars(HandlerStep(s))

(***************************************************************************)
(* imageExists called directly, as the unit tests do, while source images  *)
(* come and go.                                                            *)
(***************************************************************************)
MaxExistsCalls == 3

ExistsFilenames ==
  {<<"a", ".", "j", "p", "g">>, <<"a", ".", "p", "n", "g">>, <<"b", ".", "j", "p", "g">>, <<"a">>,
   <<>>, <<".">>, <<".", ".">>, FilenameViaParent, ArrayFilename}

ExistsNext ==
  \/ \E s \in Slots, f \in ExistsFilenames : started < MaxExistsCalls /\ imageExistsCall(s, f)
  \/ \E s \in Slots : Close(s)
  \/ \E f \in InputDir : sourceRemoved(f)

ExistsSpec == Init /\ [][ExistsNext]_vars

(***************************************************************************)
(* The key derivations on their own, over a wider set of options.          *)
(***************************************************************************)
KeyFilenames ==
  {<<"a", ".", "j", "p", "g">>, <<"a", ".", "p", "n", "g">>, <<"a">>, <<"a", ".">>,
   <<"d", "/", "a", ".", "j", "p", "g">>, <<".", "a">>}

KeyWidths == {Absent, <<"a", "b", "c">>, <<"0">>, <<"-", "5">>, <<"3">>, <<"1", "2", "p", "x">>}

KeyHeights == {Absent, <<"0">>, <<"2">>}

KeyFormats == {Absent, <<>>, <<"p", "n", "g">>}

KeyQueries == [filename : KeyFilenames, width : KeyWidths, height : KeyHeights, format : KeyFormats]

KeyInit ==
  /\ req = [s \in Slots |-> IdleReq]
  /\ outDir = <<>>
  /\ outDirExists = FALSE
  /\ started = 0
  /\ removed = {}
  /\ keyArgs \in KeyQueries \X KeyQueries
  /\ keyResult = NoKeys

\* checkCache derives the keys of the two requests
DeriveCacheKey ==
  /\ keyResult.cacheA = Absent
  /\ keyResult' = [keyResult EXCEPT !.cacheA = generateCacheKey(ParseOptions(keyArgs[1])),
                                    !.cacheB = generateCacheKey(ParseOptions(keyArgs[2]))]
  /\ UNCHANGED <<keyArgs, serverVars>>

\* processImage derives the output filename of the first request
DeriveProcessedFilename ==
  /\ keyResult.processedA = Absent
  /\ keyResult' = [keyResult EXCEPT !.processedA = generateProcessedFilename(ParseOptions(keyArgs[1]))]
  /\ UNCHANGED <<keyArgs, serverVars>>

KeyNext == DeriveCacheKey \/ DeriveProcessedFilename

KeySpec == KeyInit /\ [][KeyNext]_vars

(***************************************************************************)
(* Properties of request handling.                                         *)
(***************************************************************************)
\* s accepts a request in this step
Arrives(s) == req[s].pc = "idle" /\ req'[s].pc # "idle"

\* C1: a request whose derived cache key names a file of the output folder
\* at lookup time is answered with that cached file in the same step,
\* processImage is not invoked for it, and it takes no further step.
CacheHitServesCached ==
  [][\A s \in Slots :
       /\ (Arrives(s) /\ TruthyStr(req'[s].q.filename)
             /\ OutputExists(generateCacheKey(ParseOptions(req'[s].q))))
          => /\ req'[s].pc = "done"
             /\ req'[s].status = 200
             /\ req'[s].via = "cache"
             /\ req'[s].served = outDir[OutputFile(generateCacheKey(ParseOptions(req'[s].q)))]
             /\ ~ Has(req'[s].log, "processImage")
       /\ req[s].via = "cache" => req'[s] \in {req[s], IdleReq}]_vars

\* a request has been answered from the cache
CacheHitServed ==
  \E s \in Slots : req[s].pc = "done" /\ req[s].via = "cache" /\ req[s].served.key # Absent

\* C2: when a request has completed with 200, a following request with the
\* same filename, width, height and format is answered by the cache lookup:
\* no transform is invoked and the output folder (the number of writes of
\* each file included) is unchanged.
SecondIdenticalRequestHits ==
  [][\A s, t \in Slots :
       (s # t /\ Arrives(s) /\ req[t].pc = "done" /\ req[t].status = 200
          /\ req[t].q = req'[s].q)
       => /\ req'[s].pc = "done"
          /\ req'[s].status = 200
          /\ req'[s].via = "cache"
          /\ ~ Has(req'[s].log, "processImage")
          /\ outDir' = outDir]_vars

\* a request computed its artifact and an identical one was served from the cache
ComputedThenCached ==
  \E s, t \in Slots :
    /\ req[t].pc = "done" /\ req[t].via = "compute"
    /\ req[s].pc = "done" /\ req[s].via = "cache"
    /\ req[s].q = req[t].q
    /\ req[s].served.writes = 1

\* a supplied dimension that does not parse to a strictly positive number
BadDimension(x) == x # Absent /\ (parseInt(x) = NaN \/ parseInt(x).v <= 0)

\* C3: a request for an existing source image with a width or height that is
\* not a positive number is answered 400 'Width and height must be positive
\* numbers' and no artifact is served.
InvalidDimensionAlways400 ==
  \A s \in Slots :
    (req[s].pc = "done" /\ req[s].q.filename \in InputDir
       /\ (BadDimension(req[s].q.width) \/ BadDimension(req[s].q.height)))
    => /\ req[s].status = 400
       /\ req[s].body = "Width and height must be positive numbers"
       /\ req[s].via = "none"

\* C4: a request whose filename is not in the input folder is answered 404
\* 'not found'.
UnknownFilenameAlways404 ==
  \A s \in Slots :
    (req[s].pc = "done" /\ TruthyStr(req[s].q.filename) /\ ~ (req[s].q.filename \in InputDir))
    => (req[s].status = 404 /\ req[s].body = "Image not found")

\* C5: a request without a filename, or with an empty one, is answered 400
\* 'Missing required parameter: filename' as its only step: no cache lookup,
\* no source check and no transform have taken place.
MissingFilenameRejectedFirst ==
  \A s \in Slots :
    (req[s].pc # "idle" /\ ~ TruthyStr(req[s].q.filename))
    => /\ req[s].pc = "done"
       /\ req[s].status = 400
       /\ req[s].body = "Missing required parameter: filename"
       /\ req[s].log = <<"missing">>
       /\ req[s].sent = 1

\* requests without a filename and with an empty filename have been rejected
MissingFilenameRejected ==
  \E s, t \in Slots :
    /\ req[s].pc = "done" /\ req[s].q.filename = Absent /\ req[s].status = 400
    /\ req[t].pc = "done" /\ req[t].q.filename = <<>> /\ req[t].status = 400

\* C6: no request both sends the cached file and runs the transformer; a
\* request sends at most one response, none before it is resolved; a file is
\* sent either right after the lookup or after the transform has written it.
OneOutcomePerRequest ==
  \A s \in Slots :
    LET r == req[s]
    IN /\ r.sent <= 1
       /\ r.sent = 1 <=> r.pc = "done"
       /\ r.status = 200 <=> r.via # "none"
       /\ ~ (r.via = "cache" /\ Has(r.log, "processImage"))
       /\ r.via = "cache" => r.log = <<"checkCache", "sendFile">>
       /\ r.via = "compute" =>
            /\ r.log = <<"checkCache", "next", "imageExists", "processImage", "toFile", "written", "sendFile">>
            /\ r.served.key = generateProcessedFilename(r.locals)
            /\ r.served.by \in {ImageOf(r.locals), MixedBytes}

\* one request was served from the cache and another by a transform
BothOutcomesSeen ==
  \E s, t \in Slots :
    /\ req[s].pc = "done" /\ req[s].via = "cache" /\ req[s].sent = 1
    /\ req[t].pc = "done" /\ req[t].via = "compute" /\ req[t].sent = 1

(***************************************************************************)
(* Properties of the key derivation.                                       *)
(***************************************************************************)
\* options that pass every validation of the route handler and the codec
ValidOptions(o) ==
  /\ o.filename \in InputDir
  /\ ~ InvalidDimensions(o)
  /\ (TruthyStr(o.format) => o.format \in SupportedFormats)

\* the encoding a request asks for: its format, else that of the source
TargetFormat(o) ==
  IF TruthyStr(o.format) THEN o.format ELSE RemoveFirstDot(PathExt(o.filename))

\* C7: two valid requests that differ in source file, width, height or
\* format never derive the same cache key.
CacheKeyInjective ==
  keyResult.cacheA # Absent =>
    LET a == ParseOptions(keyArgs[1])
        b == ParseOptions(keyArgs[2])
    IN (/\ ValidOptions(a) /\ ValidOptions(b)
        /\ (a.filename # b.filename \/ a.width # b.width \/ a.height # b.height
              \/ TargetFormat(a) # TargetFormat(b)))
       => keyResult.cacheA # keyResult.cacheB

\* the dimension token of the description: the value given, auto when omitted
DescribedDim(x) ==
  IF x = Undefined THEN <<"a", "u", "t", "o">>
  ELSE IF x = NaN THEN <<"N", "a", "N">> ELSE NumberToString(x.v)

\* the key as described: base + dims + '.' + ext
DescribedKey(q) ==
  LET o == ParseOptions(q)
      base == PathName(q.filename)
      original == RemoveFirstDot(PathExt(q.filename))
      ext == IF TruthyStr(q.format) THEN q.format
             ELSE IF original # <<>> THEN original ELSE <<"j", "p", "g">>
      dims == IF o.width = Undefined /\ o.height = Undefined THEN <<>>
              ELSE <<"_">> \o DescribedDim(o.width) \o <<"x">> \o DescribedDim(o.height)
  IN base \o dims \o <<".">> \o ext

\* C8: the derived key of every request is base + dims + '.' + ext with the
\* value given for a dimension, or auto for an omitted one.
CacheKeyAsDescribed ==
  keyResult.cacheA # Absent => keyResult.cacheA = DescribedKey(keyArgs[1])

\* C10: for every options value generateCacheKey and
\* generateProcessedFilename return the same name, so the file processImage
\* writes is the file checkCache probes.
KeyDerivationsAgree ==
  (keyResult.cacheA # Absent /\ keyResult.processedA # Absent)
    => keyResult.cacheA = keyResult.processedA

\* both derivations ran on a request with one dimension and no extension
BothDerivationsRan ==
  /\ keyResult.cacheA = <<"a", "_", "3", "x", "a", "u", "t", "o", ".", "j", "p", "g">>
  /\ keyResult.processedA = keyResult.cacheA
  /\ keyArgs[1].filename = <<"a">>

(***************************************************************************)
(* Properties of the outcome of a valid request.                           *)
(***************************************************************************)
\* a supplied dimension is a positive integer
PositiveInteger(x) ==
  /\ x # <<>>
  /\ \A i \in 1..Len(x) : IsDigit(x[i])
  /\ parseInt(x).v > 0

\* a request for a source image with each dimension absent or a positive integer
ValidRequest(q) ==
  /\ q.filename \in InputDir
  /\ (q.width = Absent \/ PositiveInteger(q.width))
  /\ (q.height = Absent \/ PositiveInteger(q.height))

\* the name of the artifact of q has a '_WxH' suffix
HasDimensionSuffix(q) ==
  \E w \in {<<"a", "u", "t", "o">>, q.width}, h \in {<<"a", "u", "t", "o">>, q.height} :
    LET key == DescribedKey(q)
        name == PathName(q.filename)
        suffix == <<"_">> \o w \o <<"x">> \o h
    IN /\ Len(key) > Len(name) + Len(suffix)
       /\ SubSeq(key, Len(name) + 1, Len(name) + Len(suffix)) = suffix

\* a file named key is in the output folder
InOutputFolder(key) == \E i \in DOMAIN outDir : outDir[i].path = Append(outputFolder, key)

\* C11: every request for a source image with each dimension absent or a
\* positive integer is answered 200, and the file named by its cache key
\* then exists in the output folder, with a '_WxH' suffix exactly when a
\* dimension was given.
ValidRequestAlways200 ==
  \A s \in Slots :
    (req[s].pc = "done" /\ ValidRequest(req[s].q))
    => /\ req[s].status = 200
       /\ InOutputFolder(DescribedKey(req[s].q))
       /\ HasDimensionSuffix(req[s].q)
            <=> (req[s].q.width # Absent \/ req[s].q.height # Absent)

\* C12: every 200 response carries the content type of the format the file
\* it sends was encoded in, which for a request for a source image is the
\* requested format, else the format of the source file, on a hit and after
\* a computation alike.
ContentTypeMatchesFormat ==
  \A s \in Slots :
    (req[s].pc = "done" /\ req[s].status = 200)
    => /\ req[s].via \in {"cache", "compute"}
       /\ req[s].ctype = Mime(req[s].served.format)
       /\ req[s].q.filename \in InputDir
            => req[s].ctype = Mime(TargetFormat(ParseOptions(req[s].q)))

(***************************************************************************)
(* Properties of the files in the output folder.                           *)
(***************************************************************************)
\* a handler has the file stored under key open for writing
WriteInFlight(key) == \E t \in Slots : req[t].pc = "writing" /\ OutputKey(req[t]) = key

\* C14: a transform that fails during the write leaves no partial file that
\* a later lookup reports as a hit: a hit serves an incomplete file only
\* while a write of it is in flight.
NoPartialArtifactServed ==
  [][\A s \in Slots :
       (Arrives(s) /\ req'[s].via = "cache")
       => (req'[s].served.complete \/ WriteInFlight(req'[s].served.key))]_vars

\* C16: a request that arrives while another handler is writing the file of
\* its key gets a cache hit and is sent the file as it is, incomplete.
HitDuringWrite ==
  [][\A s \in Slots :
       (Arrives(s) /\ TruthyStr(req'[s].q.filename)
          /\ WriteInFlight(generateCacheKey(ParseOptions(req'[s].q))))
       => /\ req'[s].pc = "done" /\ req'[s].status = 200 /\ req'[s].via = "cache"
          /\ req'[s].served.key = generateCacheKey(ParseOptions(req'[s].q))
          /\ ~ req'[s].served.complete]_vars

\* a response went out from the cache while the write of its file is in flight
PartialFileServed ==
  \E s, t \in Slots :
    /\ req[s].pc = "done" /\ req[s].via = "cache" /\ ~ req[s].served.complete
    /\ req[t].pc = "writing" /\ OutputKey(req[t]) = req[s].served.key

\* C20: no step removes a file from the output folder or the folder itself;
\* a file once present stays present at its path.
ArtifactsNeverRemoved ==
  [][/\ outDirExists => outDirExists'
     /\ \A i \in DOMAIN outDir :
          i \in DOMAIN outDir' /\ outDir'[i].path = outDir[i].path]_vars

\* a request failed after it had opened its output file, and the file is
\* still there
FailedWriteLeftFile ==
  \E s \in Slots :
    /\ req[s].pc = "done" /\ req[s].status = 500 /\ Has(req[s].log, "toFile")
    /\ OutputExists(OutputKey(req[s]))

\* C19: every step that creates or changes a file leaves the input folder
\* alone: the file written is neither a source image nor anywhere below the
\* input folder, whatever the filename, width, height and format.
NeverWritesInput ==
  [][\A i \in DOMAIN outDir' :
       (i \notin DOMAIN outDir \/ outDir'[i] # outDir[i])
       => /\ SubSeq(outDir'[i].path, 1, Len(inputFolder)) # inputFolder
          /\ \A f \in InputDir : outDir'[i].path # Append(inputFolder, f)]_vars

\* a request whose filename leads through the parent folder has been
\* processed into the output folder, and one whose format leads to a source
\* image has been answered
TraversalProcessed ==
  \E s, t \in Slots :
    /\ req[s].pc = "done" /\ req[s].q.filename = FilenameViaParent /\ req[s].via = "compute"
    /\ req[s].served.path = Append(outputFolder, <<"a", ".", "j", "p", "g">>)
    /\ req[t].pc = "done" /\ req[t].q.format = FormatToSource /\ req[t].status = 200

\* the bytes of two files are the same
SameBytes(f, g) == f.by = g.by /\ f.complete = g.complete /\ f.by # MixedBytes

\* C13: a request that hits the cache after the same request has been
\* computed is sent the file the computation sent: same path, same bytes.
IdempotentHit ==
  [][\A s, t \in Slots :
       (/\ Arrives(s) /\ req'[s].via = "cache"
        /\ req[t].pc = "done" /\ req[t].via = "compute" /\ req[t].q = req'[s].q)
       => /\ req'[s].served.path = req[t].served.path
          /\ SameBytes(req'[s].served, req[t].served)]_vars

\* C15: when two handlers have written the same file and both have
\* finished, the file holds the bytes of the one that finished last.
LastFinisherBytesPersist ==
  \A s, t \in Slots :
    (/\ req[s].pc = "done" /\ req[s].via = "compute"
     /\ req[t].pc = "done" /\ req[t].via = "compute"
     /\ OutputKey(req[s]) = OutputKey(req[t])
     /\ ~ req[s].served.complete /\ req[t].served.complete)
    => outDir[OutputFile(OutputKey(req[t]))].by = ImageOf(req[t].locals)

(***************************************************************************)
(* Properties of processImage called directly.                             *)
(***************************************************************************)
\* C17: processImage for a filename that is not in the input folder rejects
\* with the error 'Input file not found' of its existence check, not with
\* the 'Failed to process image' error of codec and I/O faults, and opens no
\* output file.
SourceNotFoundDistinct ==
  \A s \in Slots :
    (req[s].pc = "done" /\ req[s].direct /\ ~ imageExists(req[s].q.filename))
    => /\ req[s].error # <<>>
       /\ req[s].error[1] = "Input file not found"
       /\ ~ Has(req[s].log, "toFile")

\* C18: a call of processImage that resolves returns the path of the derived
\* key in the output folder, and the file at that path is complete and holds
\* the image of the call when it returns.
ReturnsCompleteFile ==
  \A s \in Slots :
    (req[s].pc = "done" /\ req[s].direct /\ req[s].error = <<>>)
    => /\ req[s].result = Append(outputFolder, generateCacheKey(req[s].locals))
       /\ req[s].served.complete
       /\ req[s].served.by = ImageOf(req[s].locals)

(***************************************************************************)
(* Properties of the error paths.                                          *)
(***************************************************************************)
\* C21: the cache lookup changes nothing on disk, and when the probe throws
\* the request goes on as after a miss: next() is called with the options
\* in res.locals and no response has been sent by the middleware.
ProbeErrorIsMiss ==
  [][\A s \in Slots :
       Arrives(s)
       => /\ outDir' = outDir /\ outDirExists' = outDirExists
          /\ ~ IsString(req'[s].q.filename)
               => /\ req'[s].pc = "access" /\ req'[s].sent = 0
                  /\ req'[s].log = <<"checkCache", "next", "imageExists">>
                  /\ req'[s].locals = ParseOptions(req'[s].q)]_vars

\* a request whose probe threw has been passed on to the route handler
ProbeErrorPassedOn ==
  \E s \in Slots :
    /\ req[s].q.filename = ArrayFilename /\ req[s].pc = "access"
    /\ Has(req[s].log, "next") /\ req[s].status = 0

\* number of times step occurs in log
Occurrences(log, step) == Cardinality({i \in DOMAIN log : log[i] = step})

\* the body of the 500 response for a failure of processImage
FailureBody(error) ==
  IF error[2] = "Failed to create output directory"
  THEN "Internal server error: Error: Failed to process image: Error: Failed to create output directory"
  ELSE IF error[2] = "Input file not found"
  THEN "Internal server error: Error: Failed to process image: Error: Input file not found"
  ELSE IF error[2] = "Unsupported output format"
  THEN "Internal server error: Error: Failed to process image: Error: Unsupported output format"
  ELSE IF error[2] = "Expected positive integer"
  THEN "Internal server error: Error: Failed to process image: Error: Expected positive integer"
  ELSE "Internal server error: Error: Failed to process image"

\* C22: processImage is invoked at most once per request, and a request
\* whose processImage failed is answered once, 500, with the body
\* 'Internal server error: ' followed by the message of the error.
TransformFailureAnswered500 ==
  \A s \in Slots :
    /\ Occurrences(req[s].log, "processImage") <= 1
    /\ Occurrences(req[s].log, "toFile") <= 1
    /\ (req[s].pc = "done" /\ req[s].error # <<>>)
       => /\ req[s].status = 500 /\ req[s].sent = 1 /\ req[s].via = "none"
          /\ req[s].body = FailureBody(req[s].error)

\* a request failed in mkdir and one failed in toFile, both answered 500
TransformFailuresAnswered ==
  \E s, t \in Slots :
    /\ req[s].pc = "done" /\ req[s].status = 500
    /\ req[s].error = <<"Failed to process image", "Failed to create output directory">>
    /\ req[t].pc = "done" /\ req[t].status = 500
    /\ req[t].error = <<"Failed to process image", "toFile">>

(***************************************************************************)
(* Properties of the order of the checks.                                  *)
(***************************************************************************)
\* C23: a request that names a source image without its extension, with
\* each dimension absent or a positive integer, is processed and answered
\* with the image.
ExtensionlessNameProcessed ==
  \A s \in Slots :
    (/\ req[s].pc = "done"
     /\ \E f \in InputDir : PathName(f) = req[s].q.filename
     /\ (req[s].q.width = Absent \/ PositiveInteger(req[s].q.width))
     /\ (req[s].q.height = Absent \/ PositiveInteger(req[s].q.height)))
    => (req[s].status = 200 \/ req[s].error # <<>>)

\* position of the first occurrence of step in log, 0 when it has none
FirstIndex(log, step) ==
  IF Has(log, step) THEN CHOOSE i \in DOMAIN log : log[i] = step /\ \A j \in 1..(i - 1) : log[j] # step
  ELSE 0

\* C24: the dimensions are validated before the source is looked for, and
\* the source is looked for before the cache: a request with an invalid
\* dimension and a filename that is not in the input folder is answered 400,
\* and no cache lookup precedes the existence check.
ValidationBeforeExistence ==
  \A s \in Slots :
    /\ (/\ req[s].pc = "done" /\ TruthyStr(req[s].q.filename)
        /\ req[s].q.filename \notin InputDir
        /\ (BadDimension(req[s].q.width) \/ BadDimension(req[s].q.height)))
       => /\ req[s].status = 400
          /\ req[s].body = "Width and height must be positive numbers"
    /\ (Has(req[s].log, "checkCache") /\ Has(req[s].log, "imageExists"))
       => FirstIndex(req[s].log, "imageExists") < FirstIndex(req[s].log, "checkCache")

(***************************************************************************)
(* Properties of the dimension suffix of the key.                          *)
(***************************************************************************)
\* the key of q without a dimension suffix: base + '.' + ext
BareKey(q) ==
  LET original == RemoveFirstDot(PathExt(q.filename))
      ext == IF TruthyStr(q.format) THEN q.format
             ELSE IF original # <<>> THEN original ELSE <<"j", "p", "g">>
  IN PathName(q.filename) \o <<".">> \o ext

\* key is the key of q with width token w and some height token
HasWidthToken(key, q, w) ==
  LET prefix == PathName(q.filename) \o <<"_">> \o w \o <<"x">>
  IN Len(key) > Len(prefix) /\ SubSeq(key, 1, Len(prefix)) = prefix

\* key is the key of q with height token h after some width token
HasHeightToken(key, q, h) ==
  LET bare == BareKey(q)
      tail == <<"x">> \o h \o SubSeq(bare, Len(PathName(q.filename)) + 1, Len(bare))
  IN /\ Len(key) > Len(PathName(q.filename)) + Len(tail)
     /\ SubSeq(key, Len(key) - Len(tail) + 1, Len(key)) = tail
     /\ key # bare

\* C25: the key of every parsed request, also one whose width or height is
\* 0 or NaN, has no dimension suffix exactly when width and height are both
\* absent, shows auto for a dimension only when that dimension was
\* omitted, and so the key of a request with an invalid dimension is never
\* the key of a valid request.
KeySuffixFollowsAbsence ==
  keyResult.cacheA # Absent =>
    LET q == keyArgs[1]
        p == keyArgs[2]
    IN /\ keyResult.cacheA = BareKey(q) <=> (q.width = Absent /\ q.height = Absent)
       /\ HasWidthToken(keyResult.cacheA, q, <<"a", "u", "t", "o">>) => q.width = Absent
       /\ HasHeightToken(keyResult.cacheA, q, <<"a", "u", "t", "o">>) => q.height = Absent
       /\ ((BadDimension(q.width) \/ BadDimension(q.height)) /\ ValidOptions(ParseOptions(p)))
          => keyResult.cacheA # keyResult.cacheB

(***************************************************************************)
(* Properties of processImage: its steps and its writes.                   *)
(***************************************************************************)
\* C26: a call of processImage that reaches toFile has applied resize
\* exactly when a width or a height was given, and toFormat exactly when a
\* format was given.
CodecStepsFollowOptions ==
  \A s \in Slots :
    (req[s].direct /\ req[s].pc \in {"toFile", "writing"})
    => /\ "resize" \in req[s].steps
            <=> (req[s].locals.width # Undefined \/ req[s].locals.height # Undefined)
       /\ "toFormat" \in req[s].steps <=> req[s].locals.format # Absent

\* C27: processImage does not look at what is in the output folder: every
\* call that resolves has opened and written its output file, also when a
\* file was there already, and the output folder exists before the file is
\* opened.
ProcessImageAlwaysWrites ==
  \A s \in Slots :
    req[s].direct
    => /\ req[s].pc \in {"toFile", "writing"} => outDirExists
       /\ (req[s].pc = "done" /\ req[s].error = <<>>)
          => /\ outDirExists
             /\ req[s].log = <<"processImage", "toFile", "written">>
             /\ req[s].result = req[s].served.path
             /\ req[s].served.writes >= 1

\* a call has resolved after it wrote over the artifact of an earlier call,
\* the first call having created the output folder
ArtifactOverwritten ==
  \E s \in Slots :
    /\ req[s].pc = "done" /\ req[s].direct /\ req[s].error = <<>>
    /\ req[s].served.writes = 2 /\ req[s].served.complete
    /\ outDirExists

\* C28: a request answered 400 or 404 has not entered processImage, and
\* every step that creates the output folder or creates or changes a file
\* is a step of a request inside processImage: a request answered 400 or
\* 404 leaves the disk as it was.
RejectedRequestLeavesDisk ==
  [][/\ \A s \in Slots :
          req'[s].status \in {400, 404}
          => /\ ~ Has(req'[s].log, "processImage")
             /\ req[s].pc # "done" => (outDir' = outDir /\ outDirExists' = outDirExists)
     /\ (outDir' # outDir \/ outDirExists' # outDirExists)
          => \E s \in Slots : req'[s] # req[s] /\ Has(req[s].log, "processImage")]_vars

\* one request has been answered 400 for its width and one 404, and the
\* disk is as it was at the start
RejectedAndDiskUntouched ==
  \E s, t \in Slots :
    /\ req[s].pc = "done" /\ req[s].status = 400 /\ Has(req[s].log, "invalid")
    /\ req[t].pc = "done" /\ req[t].status = 404
    /\ outDir = <<>> /\ ~ outDirExists

(***************************************************************************)
(* Properties of what a hit serves.                                        *)
(***************************************************************************)
\* C29: the file sent on a cache hit is the image of the request's own
\* source file, width, height and format.
HitServesOwnImage ==
  \A s \in Slots :
    (req[s].pc = "done" /\ req[s].via = "cache")
    => req[s].served.by = ImageOf(ParseOptions(req[s].q))

\* p is a direct child of the output folder
ChildOfOutputFolder(p) ==
  Len(p) = Len(outputFolder) + 1 /\ SubSeq(p, 1, Len(outputFolder)) = outputFolder

\* C30: every file sent on a hit and every file written lies directly in
\* the output folder.
OutputFolderFlat ==
  /\ \A s \in Slots :
       (req[s].pc = "done" /\ req[s].status = 200) => ChildOfOutputFolder(req[s].served.path)
  /\ \A i \in DOMAIN outDir : ChildOfOutputFolder(outDir[i].path)

(***************************************************************************)
(* Properties of requests whose source image is removed meanwhile.         *)
(***************************************************************************)
\* C31: a request whose source file is missing is answered 404, also when
\* the file passed the existence check of the route handler and is missing
\* at the existence check of processImage.
MissingSourceAlways404 ==
  \A s \in Slots :
    (req[s].pc = "done" /\ ~ req[s].direct /\ req[s].error = <<"Failed to process image", "Input file not found">>)
    => req[s].status = 404

(***************************************************************************)
(* Properties of concurrent requests with different keys.                  *)
(***************************************************************************)
\* the file on disk under the cache key of request r
ArtifactOf(r) == FileAt(OutputPath(generateCacheKey(r.locals)))

\* C32: in every step, a file of the output folder that is created or
\* changed is the one named by the cache key of the request that takes the
\* step; a request that finishes as the only writer of its key leaves under
\* that key the complete output of its own options and serves it; and a
\* request whose mkdir finds the folder already created by another request
\* goes on to the codec instead of failing.
DifferentKeysDoNotInterfere ==
  [][/\ \A i \in DOMAIN outDir' :
          (i \notin DOMAIN outDir \/ outDir'[i] # outDir[i])
          => \E s \in Slots : /\ req'[s] # req[s]
                              /\ outDir'[i].path = OutputPath(generateCacheKey(req[s].locals))
     /\ \A s \in Slots :
          /\ (req[s].pc = "writing" /\ req'[s].pc = "done" /\ WritesOf(OutputKey(req[s])) = 1)
             => /\ req'[s].status = 200
                /\ req'[s].served = outDir'[OutputFile(generateCacheKey(req[s].locals))]
                /\ req'[s].served.by = ImageOf(req[s].locals)
                /\ req'[s].served.complete
          /\ (req[s].pc = "mkdir" /\ outDirExists /\ req'[s] # req[s])
             => req'[s].pc = "toFile" /\ req'[s].error = <<>>]_vars

\* a request has written its file and answered while another request, with
\* a different key, still is in the mkdir it started before the folder
\* existed
MkdirRacedAndOtherFinished ==
  \E s, t \in Slots :
    /\ req[s].pc = "done" /\ req[s].via = "compute" /\ req[s].status = 200
    /\ ArtifactOf(req[s]).by = ImageOf(req[s].locals)
    /\ req[t].pc = "mkdir" /\ outDirExists
    /\ generateCacheKey(req[t].locals) # generateCacheKey(req[s].locals)

(***************************************************************************)
(* Termination of request handling.                                        *)
(***************************************************************************)
\* C33: under fair scheduling of the handlers, every request that has
\* arrived is eventually answered, once, with status 200, 400, 404 or 500.
EveryRequestAnswered ==
  \A s \in Slots :
    (req[s].pc # "idle")
      ~> (req[s].pc = "done" /\ req[s].sent = 1 /\ req[s].status \in {200, 400, 404, 500})

\* one request has been answered with the processed file and another one
\* with the 500 of the route handler's catch, after the cache middleware
\* had passed it on
AnsweredAfterAwaits ==
  \E s, t \in Slots :
    /\ req[s].pc = "done" /\ req[s].status = 200 /\ req[s].via = "compute"
    /\ req[t].pc = "done" /\ req[t].status = 500 /\ Has(req[t].log, "next")

(***************************************************************************)
(* Properties of imageExists.                                              *)
(***************************************************************************)
\* filename names, possibly through other folders, a file that lies in the
\* input folder
NamesInputFile(filename) ==
  /\ IsString(filename)
  /\ \E f \in InputDir \ removed : JoinPath(inputFolder, filename) = Append(inputFolder, f)

\* C34: a call of imageExists never rejects, resolves true exactly when
\* the name is that of a file in the input folder and false otherwise, and
\* leaves the filesystem as it was.
ImageExistsExact ==
  [][\A s \in Slots :
       (Arrives(s) /\ req'[s].log = <<"imageExists">>)
       => /\ req'[s].returned = IF NamesInputFile(req'[s].q.filename) THEN "true" ELSE "false"
          /\ UNCHANGED <<outDir, outDirExists, removed>>]_vars

====
